---- MODULE Spec2Model ----
(***************************************************************************)
(* GraphQL MCP server (server.ts): the global `state` object, the          *)
(* configure handler, the tool-call dispatcher, the resolver handler and   *)
(* the pure helpers they use (type mapping, tool building, query           *)
(* synthesis, sanitizing and the safety checks).                           *)
(*                                                                         *)
(* Text is modelled character by character: a string is a sequence of      *)
(* one-character strings, so that sanitizing, the complexity regex, the    *)
(* brace scan and the substring search are computed as the code computes   *)
(* them.  A nullable value (T | null, or an optional key) is a sequence of *)
(* length 0 (null / key absent) or 1 (the value).                          *)
(***************************************************************************)
EXTENDS Integers, Sequences, FiniteSets, TLC

VARIABLES
    state,        \* the global ServerState object
    env,          \* process.env, fixed for the process lifetime
    configuring,  \* activations of handleConfigureGraphQL, suspended at an await
    calling,      \* activations of handleGraphQLResolver, suspended at an await
    outcome,      \* what the handler step that ran last did: sent, returned or threw
    probe         \* inputs and outputs of the pure-function harness (SpecGuard)

vars == <<state, env, configuring, calling, outcome, probe>>

-----------------------------------------------------------------------------
(* Bounds of the model *)

MaxConfigures == 2
MaxCalls == 1
MaxNow == 1
\* the longest text the guard harness feeds to validateQueryConstraints
MaxTextLen == 4
\* the longest text the sanitizer harness feeds to sanitizeQuery
MaxCommentLen == 8
\* the most NON_NULL/LIST wrappers around the leaf of a type reference
MaxWrap == 4

-----------------------------------------------------------------------------
(* Characters and strings *)

LowerLetters ==
    <<"a", "b", "c", "d", "e", "f", "g", "h", "i", "j", "k", "l", "m",
      "n", "o", "p", "q", "r", "s", "t", "u", "v", "w", "x", "y", "z">>

UpperLetters ==
    <<"A", "B", "C", "D", "E", "F", "G", "H", "I", "J", "K", "L", "M",
      "N", "O", "P", "Q", "R", "S", "T", "U", "V", "W", "X", "Y", "Z">>

Digits == {"0", "1", "2", "3", "4", "5", "6", "7", "8", "9"}

Range(s) == {s[i] : i \in DOMAIN s}

\* the regex class \w
WordChars == Range(LowerLetters) \cup Range(UpperLetters) \cup Digits \cup {"_"}

\* the regex class \s (the members that occur in the texts of the model)
SpaceChars == {" ", "\n", "\t", "\r"}

UpperSet == Range(UpperLetters)

LowerOf == [c \in UpperSet |->
              LowerLetters[CHOOSE i \in DOMAIN UpperLetters : UpperLetters[i] = c]]

\* String.prototype.toLowerCase, one character
LowerChar(c) == IF c \in UpperSet THEN LowerOf[c] ELSE c

toLowerCase(s) == [i \in DOMAIN s |-> LowerChar(s[i])]

\* s occurs in t at position i
OccursAt(t, s, i) ==
    /\ i + Len(s) - 1 <= Len(t)
    /\ \A k \in 1..Len(s) : t[i + k - 1] = s[k]

\* String.prototype.includes
includes(t, s) == \E i \in 1..(Len(t) + 1) : OccursAt(t, s, i)

\* Array.prototype.includes
arrayIncludes(arr, v) == \E i \in DOMAIN arr : arr[i] = v

RECURSIVE join(_, _)
\* Array.prototype.join
join(parts, sep) ==
    IF parts = <<>> THEN <<>>
    ELSE IF Len(parts) = 1 THEN parts[1]
    ELSE parts[1] \o sep \o join(Tail(parts), sep)

Max(a, b) == IF a >= b THEN a ELSE b

-----------------------------------------------------------------------------
(* String literals of the source *)

S_query == <<"q", "u", "e", "r", "y">>
S_mutation == <<"m", "u", "t", "a", "t", "i", "o", "n">>
S_query_ == <<"q", "u", "e", "r", "y", "_">>
S_mutation_ == <<"m", "u", "t", "a", "t", "i", "o", "n", "_">>
S_get_status == <<"g", "e", "t", "_", "s", "t", "a", "t", "u", "s">>
S_introspect_schema ==
    <<"i", "n", "t", "r", "o", "s", "p", "e", "c", "t", "_", "s", "c", "h", "e", "m", "a">>
S_execute_query == <<"e", "x", "e", "c", "u", "t", "e", "_", "q", "u", "e", "r", "y">>
S_configure_graphql ==
    <<"c", "o", "n", "f", "i", "g", "u", "r", "e", "_",
      "g", "r", "a", "p", "h", "q", "l">>
S_String == <<"S", "t", "r", "i", "n", "g">>
S_Int == <<"I", "n", "t">>
S_Float == <<"F", "l", "o", "a", "t">>
S_Boolean == <<"B", "o", "o", "l", "e", "a", "n">>
S_ID == <<"I", "D">>
S_Mixed == <<"M", "i", "x", "e", "d">>
S_id == <<"i", "d">>
S_name == <<"n", "a", "m", "e">>
S_code == <<"c", "o", "d", "e">>
S_title == <<"t", "i", "t", "l", "e">>
S_object == <<" ", "o", "b", "j", "e", "c", "t">>

-----------------------------------------------------------------------------
(* TypeRef values: nested records {kind, name} / {kind, ofType} *)

Named(kind, name) == [kind |-> kind, name |-> name]
Scalar(name) == Named("SCALAR", name)
Object(name) == Named("OBJECT", name)
Enum(name) == Named("ENUM", name)
NonNull(t) == [kind |-> "NON_NULL", ofType |-> t]
List(t) == [kind |-> "LIST", ofType |-> t]

RECURSIVE getLeafType(_)
getLeafType(type) ==
    IF type.kind = "NON_NULL" \/ type.kind = "LIST"
    THEN getLeafType(type.ofType)
    ELSE type

\* a rendering that drops the wrappers
getGraphQLTypeString_leafOnly(type) == getLeafType(type).name

RECURSIVE getGraphQLTypeString(_)
getGraphQLTypeString(type) ==
    IF type.kind = "NON_NULL" THEN getGraphQLTypeString(type.ofType) \o <<"!">>
    ELSE IF type.kind = "LIST" THEN <<"[">> \o getGraphQLTypeString(type.ofType) \o <<"]">>
    ELSE type.name

RECURSIVE convertGraphQLTypeToJsonSchema(_)
convertGraphQLTypeToJsonSchema(gqlType) ==
    IF gqlType.kind = "NON_NULL" THEN convertGraphQLTypeToJsonSchema(gqlType.ofType)
    ELSE IF gqlType.kind = "LIST"
    THEN [type |-> "array", items |-> convertGraphQLTypeToJsonSchema(gqlType.ofType)]
    ELSE IF gqlType.kind = "SCALAR"
    THEN IF gqlType.name = S_String THEN [type |-> "string"]
         ELSE IF gqlType.name = S_Int THEN [type |-> "integer"]
         ELSE IF gqlType.name = S_Float THEN [type |-> "number"]
         ELSE IF gqlType.name = S_Boolean THEN [type |-> "boolean"]
         ELSE IF gqlType.name = S_ID THEN [type |-> "string"]
         ELSE [type |-> "string"]
    ELSE IF gqlType.kind = "ENUM"
    THEN [type |-> "string",
          enum |-> IF "enumValues" \in DOMAIN gqlType
                   THEN [i \in DOMAIN gqlType.enumValues |-> gqlType.enumValues[i].name]
                   ELSE <<>>]
    ELSE [type |-> "string", description |-> gqlType.name \o S_object]

-----------------------------------------------------------------------------
(* The GraphQL servers of the model and what their introspection returns *)

S_user == <<"u", "s", "e", "r">>
S_users == <<"u", "s", "e", "r", "s">>
S_ping == <<"p", "i", "n", "g">>
S_addUser == <<"a", "d", "d", "U", "s", "e", "r">>
S_role == <<"r", "o", "l", "e">>
S_friends == <<"f", "r", "i", "e", "n", "d", "s">>
S_item == <<"i", "t", "e", "m">>
S_owner == <<"o", "w", "n", "e", "r">>
S_x == <<"x">>
S_User == <<"U", "s", "e", "r">>
S_Role == <<"R", "o", "l", "e">>
S_Item == <<"I", "t", "e", "m">>
S_Query == <<"Q", "u", "e", "r", "y">>
S_Mutation == <<"M", "u", "t", "a", "t", "i", "o", "n">>
S_Date == <<"D", "a", "t", "e">>
S_ADMIN == <<"A", "D", "M", "I", "N">>

Field(name, args, type) == [name |-> name, args |-> args, type |-> type]
Arg(name, type) == [name |-> name, type |-> type]

EndpointA == "https://a.example/graphql"
EndpointB == "https://b.example/graphql"
NotAUrl == "not a url"

\* z.string().url(): the strings of the model that are URLs
IsUrl(s) == s \in {EndpointA, EndpointB}

SchemaA ==
    [__schema |->
        [queryType |-> <<[name |-> S_Query]>>,
         mutationType |-> <<[name |-> S_Mutation]>>,
         types |-> <<
            [kind |-> "OBJECT", name |-> S_Query, fields |-> <<
                Field(S_user, <<Arg(S_id, NonNull(Scalar(S_ID)))>>, Object(S_User)),
                Field(S_users, <<>>, NonNull(List(NonNull(Object(S_User))))),
                Field(S_ping, <<>>, Scalar(S_String))>>],
            [kind |-> "OBJECT", name |-> S_Mutation, fields |-> <<
                Field(S_addUser,
                      <<Arg(S_name, NonNull(Scalar(S_String))), Arg(S_role, Enum(S_Role))>>,
                      Object(S_User))>>],
            [kind |-> "OBJECT", name |-> S_User, fields |-> <<
                Field(S_id, <<>>, NonNull(Scalar(S_ID))),
                Field(S_friends, <<>>, List(Object(S_User))),
                Field(S_role, <<>>, Enum(S_Role))>>],
            [kind |-> "ENUM", name |-> S_Role, fields |-> <<>>,
             enumValues |-> <<[name |-> S_ADMIN]>>]
         >>]]

SchemaB ==
    [__schema |->
        [queryType |-> <<[name |-> S_Query]>>,
         mutationType |-> <<>>,
         types |-> <<
            [kind |-> "OBJECT", name |-> S_Query, fields |-> <<
                Field(S_name, <<>>, Scalar(S_String)),
                Field(S_item, <<Arg(S_id, Scalar(S_Int))>>, Object(S_Item)),
                Field(S_role, <<>>, NonNull(Enum(S_Role)))>>],
            [kind |-> "OBJECT", name |-> S_Item, fields |-> <<
                Field(S_owner, <<>>, Object(S_Item)),
                Field(S_ping, <<>>, Scalar(S_Date))>>],
            [kind |-> "ENUM", name |-> S_Role, fields |-> <<>>,
             enumValues |-> <<[name |-> S_ADMIN]>>]
         >>]]

\* the introspection result the server at `endpoint` answers with
SchemaAt(endpoint) == IF endpoint = EndpointA THEN SchemaA ELSE SchemaB

-----------------------------------------------------------------------------
(* SchemaCatalog: createMCPToolsFromSchema *)

\* Array.prototype.find by name: the first match, or null
findByName(arr, name) ==
    LET hits == {i \in DOMAIN arr : arr[i].name = name}
    IN IF hits = {} THEN <<>>
       ELSE <<arr[CHOOSE i \in hits : \A j \in hits : i <= j]>>

\* a skip that looks the tool's name up in the list, not the field's
IsSkipped_byToolName(field) ==
    /\ state.config # <<>>
    /\ arrayIncludes(state.config[1].disabledResolvers, S_query_ \o field.name)

\* state.config?.disabledResolvers.includes(field.name)
IsSkipped(field) ==
    /\ state.config # <<>>
    /\ arrayIncludes(state.config[1].disabledResolvers, field.name)

\* one pass of the `required` loop: the names of the NON_NULL arguments
RequiredOf(args) ==
    LET IsRequired(arg) == arg.type.kind = "NON_NULL"
        req == SelectSeq(args, IsRequired)
    IN [i \in DOMAIN req |-> req[i].name]

\* the tool built for one field of a root type
ToolOf(field, kind) ==
    [name |-> (IF kind = "query" THEN S_query_ ELSE S_mutation_) \o field.name,
     inputSchema |->
        [type |-> "object",
         properties |-> [i \in DOMAIN field.args |->
                            [name |-> field.args[i].name,
                             schema |-> convertGraphQLTypeToJsonSchema(field.args[i].type)]],
         required |-> RequiredOf(field.args),
         additionalProperties |-> FALSE],
     resolver |->
        [type |-> kind,
         fieldName |-> field.name,
         returnType |-> LET leaf == getLeafType(field.type)
                        IN IF "name" \in DOMAIN leaf /\ leaf.name # <<>>
                           THEN leaf.name ELSE S_Mixed,
         args |-> field.args]]

\* the loop over one root type (the Query block and the Mutation block are the
\* same code with "query" / "mutation")
ToolsOfRoot(schemaData, root, kind) ==
    IF root = <<>> THEN <<>>
    ELSE LET rootType == findByName(schemaData.types, root[1].name)
         IN IF rootType = <<>> THEN <<>>
            ELSE LET NotSkipped(field) == ~IsSkipped(field)
                     kept == SelectSeq(rootType[1].fields, NotSkipped)
                 IN [i \in DOMAIN kept |-> ToolOf(kept[i], kind)]

\* a builder that leaves the Mutation block out
createMCPToolsFromSchema_queryOnly(schema) ==
    LET schemaData == schema.__schema
    IN ToolsOfRoot(schemaData, schemaData.queryType, "query")

createMCPToolsFromSchema(schema) ==
    LET schemaData == schema.__schema
    IN ToolsOfRoot(schemaData, schemaData.queryType, "query")
       \o ToolsOfRoot(schemaData, schemaData.mutationType, "mutation")

-----------------------------------------------------------------------------
(* QuerySynthesizer: getBasicSelectionSet *)

scalarTypes == <<S_String, S_Int, S_Float, S_Boolean, S_ID>>
commonFields == <<S_id, S_name, S_code, S_title>>
SelectionLimit == 5

Braced(names) == <<" ", "{", " ">> \o join(names, <<" ">>) \o <<" ", "}">>

\* a selection set that selects a sub-field of a sub-field
getBasicSelectionSet_nested(returnType) ==
    IF arrayIncludes(scalarTypes, returnType) \/ returnType = S_Mixed THEN <<>>
    ELSE <<" ", "{", " ">> \o S_id \o Braced(commonFields) \o <<" ", "}">>

getBasicSelectionSet(returnType) ==
    IF arrayIncludes(scalarTypes, returnType) \/ returnType = S_Mixed THEN <<>>
    ELSE LET type == IF state.cachedSchema = <<>> THEN <<>>
                     ELSE findByName(state.cachedSchema[1].__schema.types, returnType)
             IsScalarField(field) ==
                LET fieldType == getLeafType(field.type)
                IN arrayIncludes(scalarTypes, fieldType.name) \/ fieldType.kind = "ENUM"
             found == IF type = <<>> THEN <<>> ELSE SelectSeq(type[1].fields, IsScalarField)
             scalarFields == [i \in 1..(IF Len(found) < SelectionLimit THEN Len(found)
                                         ELSE SelectionLimit) |-> found[i].name]
         IN IF Len(scalarFields) > 0 THEN Braced(scalarFields)
            ELSE Braced(commonFields)

-----------------------------------------------------------------------------
(* SafetyGuard *)

RECURSIVE WordEnd(_, _)
\* the index after the maximal run of \w that starts at i
WordEnd(s, i) == IF i <= Len(s) /\ s[i] \in WordChars THEN WordEnd(s, i + 1) ELSE i

RECURSIVE SpaceEnd(_, _)
\* the index after the maximal run of \s that starts at i
SpaceEnd(s, i) == IF i <= Len(s) /\ s[i] \in SpaceChars THEN SpaceEnd(s, i + 1) ELSE i

\* the lookahead (?=\s*[{(]) at index j
Lookahead(s, j) ==
    LET k == SpaceEnd(s, j) IN k <= Len(s) /\ s[k] \in {"{", "("}

RECURSIVE MatchCount(_, _)
\* the number of matches of /\w+(?=\s*[{(])/g from index i on: \w+ is greedy, and a
\* shorter match or a match starting inside a run would be followed by a \w
MatchCount(s, i) ==
    IF i > Len(s) THEN 0
    ELSE IF s[i] \in WordChars
    THEN LET e == WordEnd(s, i)
         IN (IF Lookahead(s, e) THEN 1 ELSE 0) + MatchCount(s, e)
    ELSE MatchCount(s, i + 1)

\* a variant whose lookahead allows no white space before the brace
calculateQueryComplexity_adjacentOnly(query) ==
    Cardinality({e \in 1..(Len(query) - 1) :
                    query[e] \in WordChars /\ query[e + 1] \in {"{", "("}})

calculateQueryComplexity(query) == MatchCount(query, 1)

RECURSIVE DepthScan(_, _, _, _)
DepthScan(s, i, depth, maxDepth) ==
    IF i > Len(s) THEN maxDepth
    ELSE IF s[i] = "{" THEN DepthScan(s, i + 1, depth + 1, Max(maxDepth, depth + 1))
    ELSE IF s[i] = "}" THEN DepthScan(s, i + 1, depth - 1, maxDepth)
    ELSE DepthScan(s, i + 1, depth, maxDepth)

\* a variant that counts every opening brace and never goes back down
calculateQueryDepth_countsOpen(query) ==
    Cardinality({i \in 1..Len(query) : query[i] = "{"})

calculateQueryDepth(query) == DepthScan(query, 1, 0, 0)

\* the least k >= j with "*/" at k, or 0
CloseAt(s, j) ==
    LET hits == {k \in j..(Len(s) - 1) : s[k] = "*" /\ s[k + 1] = "/"}
    IN IF hits = {} THEN 0 ELSE CHOOSE k \in hits : \A h \in hits : k <= h

RECURSIVE StripBlockComments(_, _)
\* .replace(/\/\*[\s\S]*?\*\//g, '')
StripBlockComments(s, i) ==
    IF i > Len(s) THEN <<>>
    ELSE IF i < Len(s) /\ s[i] = "/" /\ s[i + 1] = "*" /\ CloseAt(s, i + 2) # 0
    THEN StripBlockComments(s, CloseAt(s, i + 2) + 2)
    ELSE <<s[i]>> \o StripBlockComments(s, i + 1)

RECURSIVE LineEnd(_, _)
\* the index after the maximal run of [^\r\n] that starts at i
LineEnd(s, i) == IF i <= Len(s) /\ s[i] \notin {"\r", "\n"} THEN LineEnd(s, i + 1) ELSE i

RECURSIVE StripLineComments(_, _)
\* .replace(/#[^\r\n]*/g, '')
StripLineComments(s, i) ==
    IF i > Len(s) THEN <<>>
    ELSE IF s[i] = "#" THEN StripLineComments(s, LineEnd(s, i + 1))
    ELSE <<s[i]>> \o StripLineComments(s, i + 1)

RECURSIVE CollapseSpace(_, _)
\* .replace(/\s+/g, ' ')
CollapseSpace(s, i) ==
    IF i > Len(s) THEN <<>>
    ELSE IF s[i] \in SpaceChars THEN <<" ">> \o CollapseSpace(s, SpaceEnd(s, i))
    ELSE <<s[i]>> \o CollapseSpace(s, i + 1)

\* String.prototype.trim
trim(s) ==
    LET solid == {i \in DOMAIN s : s[i] \notin SpaceChars}
    IN IF solid = {} THEN <<>>
       ELSE LET lo == CHOOSE i \in solid : \A j \in solid : i <= j
                hi == CHOOSE i \in solid : \A j \in solid : i >= j
            IN [k \in 1..(hi - lo + 1) |-> s[lo + k - 1]]

sanitizeQuery(query) ==
    trim(CollapseSpace(StripLineComments(StripBlockComments(query, 1), 1), 1))

Accepted == [ok |-> TRUE, reason |-> "", resolver |-> <<>>, score |-> 0, limit |-> 0]
Rejected(reason, resolver, score, limit) ==
    [ok |-> FALSE, reason |-> reason, resolver |-> resolver, score |-> score, limit |-> limit]

\* a guard that names the last disabled resolver the text mentions
validateQueryConstraints_lastHit(query, config) ==
    LET sanitized == sanitizeQuery(query)
        complexity == calculateQueryComplexity(sanitized)
        depth == calculateQueryDepth(sanitized)
        lowered == toLowerCase(sanitized)
        hits == {i \in DOMAIN config.disabledResolvers :
                    includes(lowered, toLowerCase(config.disabledResolvers[i]))}
    IN IF complexity > config.maxComplexity
       THEN Rejected("complexity", <<>>, complexity, config.maxComplexity)
       ELSE IF depth > config.maxDepth
       THEN Rejected("depth", <<>>, depth, config.maxDepth)
       ELSE IF hits # {}
       THEN Rejected("disabled",
                     config.disabledResolvers[CHOOSE i \in hits : \A j \in hits : i >= j],
                     0, 0)
       ELSE Accepted

\* a guard that looks at the depth before the complexity
validateQueryConstraints_depthFirst(query, config) ==
    LET sanitized == sanitizeQuery(query)
        complexity == calculateQueryComplexity(sanitized)
        depth == calculateQueryDepth(sanitized)
        lowered == toLowerCase(sanitized)
        hits == {i \in DOMAIN config.disabledResolvers :
                    includes(lowered, toLowerCase(config.disabledResolvers[i]))}
    IN IF depth > config.maxDepth
       THEN Rejected("depth", <<>>, depth, config.maxDepth)
       ELSE IF complexity > config.maxComplexity
       THEN Rejected("complexity", <<>>, complexity, config.maxComplexity)
       ELSE IF hits # {}
       THEN Rejected("disabled",
                     config.disabledResolvers[CHOOSE i \in hits : \A j \in hits : i <= j],
                     0, 0)
       ELSE Accepted

\* a guard without the depth check
validateQueryConstraints_noDepth(query, config) ==
    LET sanitized == sanitizeQuery(query)
        complexity == calculateQueryComplexity(sanitized)
        lowered == toLowerCase(sanitized)
        hits == {i \in DOMAIN config.disabledResolvers :
                    includes(lowered, toLowerCase(config.disabledResolvers[i]))}
    IN IF complexity > config.maxComplexity
       THEN Rejected("complexity", <<>>, complexity, config.maxComplexity)
       ELSE IF hits # {}
       THEN Rejected("disabled",
                     config.disabledResolvers[CHOOSE i \in hits : \A j \in hits : i <= j],
                     0, 0)
       ELSE Accepted

\* validateQueryConstraints: Accepted, or the McpError(InvalidParams) it throws
validateQueryConstraints(query, config) ==
    LET sanitized == sanitizeQuery(query)
        complexity == calculateQueryComplexity(sanitized)
        depth == calculateQueryDepth(sanitized)
        lowered == toLowerCase(sanitized)
        hits == {i \in DOMAIN config.disabledResolvers :
                    includes(lowered, toLowerCase(config.disabledResolvers[i]))}
    IN IF complexity > config.maxComplexity
       THEN Rejected("complexity", <<>>, complexity, config.maxComplexity)
       ELSE IF depth > config.maxDepth
       THEN Rejected("depth", <<>>, depth, config.maxDepth)
       ELSE IF hits # {}
       THEN Rejected("disabled",
                     config.disabledResolvers[CHOOSE i \in hits : \A j \in hits : i <= j],
                     0, 0)
       ELSE Accepted

-----------------------------------------------------------------------------
(* SessionConfig: ConfigureArgsSchema and loadEnvironmentConfig *)

DefaultTimeout == 30000
DefaultMaxDepth == 10
DefaultMaxComplexity == 100
MinTimeout == 1000
MaxTimeout == 60000
MinMaxDepth == 1
MaxMaxDepth == 20
MinMaxComplexity == 1
MaxMaxComplexity == 1000

DigitSeq == <<"0", "1", "2", "3", "4", "5", "6", "7", "8", "9">>
DigitValue(c) == (CHOOSE i \in DOMAIN DigitSeq : DigitSeq[i] = c) - 1

RECURSIVE DigitsValue(_, _, _)
DigitsValue(s, i, acc) ==
    IF i <= Len(s) /\ s[i] \in Digits
    THEN DigitsValue(s, i + 1, acc * 10 + DigitValue(s[i]))
    ELSE acc

\* parseInt(s, 10): the number, or NaN (the empty sequence)
parseInt(s) ==
    LET i0 == SpaceEnd(s, 1)
        signed == i0 <= Len(s) /\ s[i0] \in {"+", "-"}
        i1 == IF signed THEN i0 + 1 ELSE i0
    IN IF i1 <= Len(s) /\ s[i1] \in Digits
       THEN <<(IF signed /\ s[i0] = "-" THEN -1 ELSE 1) * DigitsValue(s, i1, 0)>>
       ELSE <<>>

RECURSIVE split(_, _)
\* String.prototype.split on a one-character separator
split(s, sep) ==
    LET hits == {i \in DOMAIN s : s[i] = sep}
    IN IF hits = {} THEN <<s>>
       ELSE LET i == CHOOSE h \in hits : \A j \in hits : h <= j
            IN <<SubSeq(s, 1, i - 1)>> \o split(SubSeq(s, i + 1, Len(s)), sep)

\* `if (process.env.X)`: set and not the empty string
IsSet(v) == v # <<>> /\ v[1] # <<>>

\* the same for a value the model keeps as one opaque string
IsSetAtom(v) == v # <<>> /\ v[1] # ""

\* a numeric variable of the environment: set, and parseInt gives a number
EnvNumber(v) == IF IsSet(v) THEN parseInt(v[1]) ELSE <<>>

\* object spread over header maps: {...a, ...b}
MergeHeaders(a, b) ==
    [k \in DOMAIN a \cup DOMAIN b |-> IF k \in DOMAIN b THEN b[k] ELSE a[k]]

NoHeaders == [k \in {} |-> <<>>]

\* loadEnvironmentConfig: a Partial config, each key absent or present
loadEnvironmentConfig ==
    LET withToken ==
            IF IsSetAtom(env.GRAPHQL_AUTH_TOKEN)
            THEN [k \in {"Authorization"} |-> <<"Bearer ", env.GRAPHQL_AUTH_TOKEN[1]>>]
            ELSE NoHeaders
        withKey ==
            IF IsSetAtom(env.GRAPHQL_API_KEY)
            THEN MergeHeaders(withToken, [k \in {"X-API-Key"} |-> <<env.GRAPHQL_API_KEY[1]>>])
            ELSE withToken
    IN [endpoint |-> IF IsSetAtom(env.GRAPHQL_ENDPOINT) THEN env.GRAPHQL_ENDPOINT ELSE <<>>,
        timeout |-> EnvNumber(env.GRAPHQL_TIMEOUT),
        maxDepth |-> EnvNumber(env.GRAPHQL_MAX_DEPTH),
        maxComplexity |-> EnvNumber(env.GRAPHQL_MAX_COMPLEXITY),
        disabledResolvers |->
            IF IsSet(env.GRAPHQL_DISABLED_RESOLVERS)
            THEN LET parts == split(env.GRAPHQL_DISABLED_RESOLVERS[1], ",")
                 IN <<[i \in DOMAIN parts |-> trim(parts[i])]>>
            ELSE <<>>,
        headers |-> IF IsSetAtom(env.GRAPHQL_AUTH_TOKEN) \/ IsSetAtom(env.GRAPHQL_API_KEY)
                    THEN <<withKey>> ELSE <<>>]

InRange(v, lo, hi) == v = <<>> \/ (v[1] >= lo /\ v[1] <= hi)

\* a number schema without .min() and .max()
ConfigureArgsSchema_noRange(args) ==
    [success |-> args.endpoint = <<>> \/ IsUrl(args.endpoint[1]),
     data |->
        [endpoint |-> args.endpoint,
         headers |-> args.headers,
         timeout |-> IF args.timeout = <<>> THEN <<DefaultTimeout>> ELSE args.timeout,
         maxDepth |-> IF args.maxDepth = <<>> THEN <<DefaultMaxDepth>> ELSE args.maxDepth,
         maxComplexity |-> IF args.maxComplexity = <<>> THEN <<DefaultMaxComplexity>>
                           ELSE args.maxComplexity,
         disabledResolvers |-> IF args.disabledResolvers = <<>> THEN <<(<<>>)>>
                               ELSE args.disabledResolvers]]

\* .default(d) of an optional key
OrDefault(v, d) == IF v = <<>> THEN <<d>> ELSE v

\* ConfigureArgsSchema.parse(args): the parsed object, or the ZodError it throws
ConfigureArgsSchema(args) ==
    [success |->
        /\ (args.endpoint = <<>> \/ IsUrl(args.endpoint[1]))
        /\ InRange(args.timeout, MinTimeout, MaxTimeout)
        /\ InRange(args.maxDepth, MinMaxDepth, MaxMaxDepth)
        /\ InRange(args.maxComplexity, MinMaxComplexity, MaxMaxComplexity),
     data |->
        [endpoint |-> args.endpoint,
         headers |-> args.headers,
         timeout |-> OrDefault(args.timeout, DefaultTimeout),
         maxDepth |-> OrDefault(args.maxDepth, DefaultMaxDepth),
         maxComplexity |-> OrDefault(args.maxComplexity, DefaultMaxComplexity),
         disabledResolvers |-> OrDefault(args.disabledResolvers, <<>>)]]

\* one key of the object spread {...a, ...b}: b's when b has the key
Spread(a, b) == IF b # <<>> THEN b ELSE a

\* the `config` object handleConfigureGraphQL builds from the environment and the
\* parsed arguments; every key is absent or present
MergeConfig(envConfig, parsedArgs) ==
    [endpoint |-> Spread(envConfig.endpoint, parsedArgs.endpoint),
     timeout |-> Spread(envConfig.timeout, parsedArgs.timeout),
     maxDepth |-> Spread(envConfig.maxDepth, parsedArgs.maxDepth),
     maxComplexity |-> Spread(envConfig.maxComplexity, parsedArgs.maxComplexity),
     disabledResolvers |-> Spread(envConfig.disabledResolvers, parsedArgs.disabledResolvers),
     headers |-> <<MergeHeaders(IF envConfig.headers = <<>> THEN NoHeaders
                                ELSE envConfig.headers[1],
                                IF parsedArgs.headers = <<>> THEN NoHeaders
                                ELSE parsedArgs.headers[1])>>]

\* the merged object with its keys read (all are present once the endpoint is)
ConfigOf(merged) ==
    [endpoint |-> merged.endpoint[1],
     timeout |-> merged.timeout[1],
     maxDepth |-> merged.maxDepth[1],
     maxComplexity |-> merged.maxComplexity[1],
     disabledResolvers |-> merged.disabledResolvers[1],
     headers |-> merged.headers[1]]

\* new GraphQLClient(endpoint, {headers})
GraphQLClient(endpoint, headers) == [endpoint |-> endpoint, headers |-> headers]

-----------------------------------------------------------------------------
(* The state of the server and of its suspended handlers *)

SCHEMA_CACHE_TTL == 300000

\* `const state: ServerState = {...}`
Unconfigured ==
    [client |-> <<>>, endpoint |-> <<>>, config |-> <<>>,
     cachedSchema |-> <<>>, schemaTimestamp |-> 0, dynamicTools |-> <<>>]

ConfigureIds == 1..MaxConfigures
CallIds == 1..MaxCalls

IdleConfigure == [pc |-> "idle", args |-> <<>>, config |-> <<>>, testClient |-> <<>>]
IdleCall == [pc |-> "idle", tool |-> <<>>, query |-> <<>>, variables |-> <<>>, client |-> <<>>]

\* What the handler step that ran last did, until the event loop turns (Deliver):
\* one step of a handler runs from a call or an answered await to the next await,
\* return or throw, and no other handler runs in between.  kind: "suspended" (it sent a request and awaits the
\* answer), "returned" (a result), "failure" (a result flagged isError), "McpError"
\* or "ZodError" (thrown).  sent: the request the step put on the network, if any.
NoOutcome ==
    [op |-> "none", step |-> "none", kind |-> "none", code |-> "", reason |-> "",
     logged |-> "", args |-> <<>>, tool |-> <<>>, sent |-> <<>>, count |-> 0,
     endpoint |-> <<>>, settings |-> <<>>, text |-> <<>>, names |-> <<>>, status |-> <<>>,
     payload |-> <<>>]

Request(client, document) == [client |-> client, document |-> document]

S_typename == <<"{", " ", "_", "_", "t", "y", "p", "e", "n", "a", "m", "e", " ", "}">>
\* getIntrospectionQuery(): the text of the standard introspection query, by name
S_introspection == <<"IntrospectionQuery">>

-----------------------------------------------------------------------------
(* handleGetStatus and the tools/list handler *)

handleGetStatus(now) ==
    [configured |-> state.client # <<>>,
     endpoint |-> state.endpoint,
     settings |->
        IF state.config # <<>>
        THEN <<[maxDepth |-> state.config[1].maxDepth,
                maxComplexity |-> state.config[1].maxComplexity,
                disabledResolvers |-> state.config[1].disabledResolvers,
                timeout |-> state.config[1].timeout,
                headersConfigured |-> DOMAIN state.config[1].headers # {}]>>
        ELSE <<>>,
     cacheStatus |->
        [schemaCache |-> state.cachedSchema # <<>>,
         cacheAge |-> IF state.cachedSchema # <<>>
                      THEN <<now - state.schemaTimestamp>> ELSE <<>>,
         cacheTTL |-> SCHEMA_CACHE_TTL]]

\* the names the tools/list handler answers with
ListTools == <<S_get_status>> \o [i \in DOMAIN state.dynamicTools |-> state.dynamicTools[i].name]

\* Date.now(): some instant not before the last one recorded
Instants == (IF state.schemaTimestamp > 1 THEN state.schemaTimestamp ELSE 1)..MaxNow

-----------------------------------------------------------------------------
(* handleConfigureGraphQL *)

\* a store that keeps the schema cached for the previous configuration
StoreConfiguration_keepsSchema(config, testClient) ==
    [client |-> <<testClient>>,
     endpoint |-> <<config.endpoint>>,
     config |-> <<config>>,
     cachedSchema |-> state.cachedSchema,
     schemaTimestamp |-> state.schemaTimestamp,
     dynamicTools |-> <<>>]

\* a store that leaves the endpoint field as it was
StoreConfiguration_withoutEndpoint(config, testClient) ==
    [client |-> <<testClient>>,
     endpoint |-> state.endpoint,
     config |-> <<config>>,
     cachedSchema |-> <<>>,
     schemaTimestamp |-> 0,
     dynamicTools |-> <<>>]

\* a store that forgets to clear the tools of the previous configuration
StoreConfiguration_keepsTools(config, testClient) ==
    [client |-> <<testClient>>,
     endpoint |-> <<config.endpoint>>,
     config |-> <<config>>,
     cachedSchema |-> <<>>,
     schemaTimestamp |-> 0,
     dynamicTools |-> state.dynamicTools]

\* lines 622-628: the configuration is stored, schema and tools are cleared
StoreConfiguration(config, testClient) ==
    [client |-> <<testClient>>,
     endpoint |-> <<config.endpoint>>,
     config |-> <<config>>,
     cachedSchema |-> <<>>,
     schemaTimestamp |-> 0,
     dynamicTools |-> <<>>]

\* a failed probe that drops the session as well
StateAfterProbeFailure_resets == Unconfigured

\* the catch block of the probe: the error is rethrown, `state` is not written
StateAfterProbeFailure == state

\* a handler that stores the client and the configuration before the probe answers
StateAtProbe_storesEarly(config, testClient) ==
    [state EXCEPT !.client = <<testClient>>, !.endpoint = <<config.endpoint>>,
                  !.config = <<config>>]

\* the state while the probe is outstanding: nothing is written before it answers
StateAtProbe(config, testClient) == state

\* the text the handler returns: the settings of its own `config`, and the
\* length of state.dynamicTools at that moment
ConfigureSummary(step, logged, args, config, toolCount) ==
    [NoOutcome EXCEPT
        !.op = "configure", !.step = step, !.kind = "returned", !.logged = logged,
        !.args = args, !.endpoint = <<config.endpoint>>,
        !.settings = <<[maxDepth |-> config.maxDepth,
                        maxComplexity |-> config.maxComplexity,
                        disabledResolvers |-> config.disabledResolvers,
                        timeout |-> config.timeout]>>,
        !.count = toolCount]

\* from the call to the first await: parse, merge, build the client, send the probe
ConfigureStart(p, args) ==
    /\ outcome = NoOutcome
    /\ configuring[p].pc = "idle"
    /\ \A q \in 1..(p - 1) : configuring[q].pc # "idle"
    /\ LET envConfig == loadEnvironmentConfig
           parsedArgs == ConfigureArgsSchema(args)
           merged == MergeConfig(envConfig, parsedArgs.data)
       IN IF ~parsedArgs.success
          THEN /\ outcome' = [NoOutcome EXCEPT !.op = "configure", !.step = "ConfigureStart",
                                               !.kind = "ZodError", !.args = <<args>>]
               /\ UNCHANGED <<state, configuring>>
          ELSE IF merged.endpoint = <<>>
          THEN /\ outcome' = [NoOutcome EXCEPT !.op = "configure", !.step = "ConfigureStart",
                                               !.kind = "McpError", !.code = "InvalidParams",
                                               !.reason = "endpoint", !.args = <<args>>]
               /\ UNCHANGED <<state, configuring>>
          ELSE LET config == ConfigOf(merged)
                   testClient == GraphQLClient(config.endpoint, config.headers)
               IN /\ configuring' = [configuring EXCEPT ![p] =
                        [pc |-> "probe", args |-> <<args>>, config |-> <<config>>,
                         testClient |-> <<testClient>>]]
                  /\ state' = StateAtProbe(config, testClient)
                  /\ outcome' = [NoOutcome EXCEPT
                        !.op = "configure", !.step = "ConfigureStart", !.kind = "suspended",
                        !.args = <<args>>, !.sent = <<Request(testClient, S_typename)>>]
    /\ UNCHANGED <<env, calling, probe>>

\* the probe request is rejected (transport error, GraphQL error, timeout)
ProbeFail(p) ==
    /\ outcome = NoOutcome
    /\ configuring[p].pc = "probe"
    /\ configuring' = [configuring EXCEPT ![p] = IdleConfigure]
    /\ state' = StateAfterProbeFailure
    /\ outcome' = [NoOutcome EXCEPT !.op = "configure", !.step = "ProbeFail",
                                    !.kind = "McpError", !.code = "InternalError",
                                    !.reason = "connect", !.args = configuring[p].args]
    /\ UNCHANGED <<env, calling, probe>>

\* the probe request is answered: lines 622-634, up to the await of the introspection
ProbeOk(p) ==
    /\ outcome = NoOutcome
    /\ configuring[p].pc = "probe"
    /\ IsUrl(configuring[p].config[1].endpoint)
    /\ configuring' = [configuring EXCEPT ![p].pc = "introspect"]
    /\ state' = StoreConfiguration(configuring[p].config[1], configuring[p].testClient[1])
    /\ outcome' = [NoOutcome EXCEPT
            !.op = "configure", !.step = "ProbeOk", !.kind = "suspended",
            !.args = configuring[p].args,
            !.sent = <<Request(configuring[p].testClient[1], S_introspection)>>]
    /\ UNCHANGED <<env, calling, probe>>

\* the introspection request is answered: lines 636-657
IntrospectOk(p) ==
    /\ outcome = NoOutcome
    /\ configuring[p].pc = "introspect"
    /\ \E now \in Instants :
        LET schemaResult == SchemaAt(configuring[p].testClient[1].endpoint)
            tools == createMCPToolsFromSchema(schemaResult)
        IN /\ state' = [state EXCEPT !.cachedSchema = <<schemaResult>>,
                                     !.schemaTimestamp = now,
                                     !.dynamicTools = tools]
           /\ outcome' = ConfigureSummary("IntrospectOk", "created", configuring[p].args,
                                          configuring[p].config[1], Len(tools))
    /\ configuring' = [configuring EXCEPT ![p] = IdleConfigure]
    /\ UNCHANGED <<env, calling, probe>>

\* the introspection request is rejected: the catch block at lines 644-646 logs
IntrospectFail(p) ==
    /\ outcome = NoOutcome
    /\ configuring[p].pc = "introspect"
    /\ configuring' = [configuring EXCEPT ![p] = IdleConfigure]
    /\ outcome' = ConfigureSummary("IntrospectFail", "introspection failed",
                                   configuring[p].args, configuring[p].config[1],
                                   Len(state.dynamicTools))
    /\ UNCHANGED <<state, env, calling, probe>>

-----------------------------------------------------------------------------
(* handleGraphQLResolver and the tools/call dispatcher *)

\* lines 686-720: the document built from the tool and the caller's argument keys
synthesizeQuery(tool, parsedArgs) ==
    LET resolver == tool.resolver
        operationType == IF resolver.type = "mutation" THEN S_mutation ELSE S_query
        GqlType(key) ==
            LET arg == findByName(resolver.args, key)
            IN IF arg # <<>> THEN getGraphQLTypeString(arg[1].type) ELSE S_String
        argPairs == [i \in DOMAIN parsedArgs |->
                        parsedArgs[i] \o <<":", " ", "$">> \o parsedArgs[i]]
        varPairs == [i \in DOMAIN parsedArgs |->
                        <<"$">> \o parsedArgs[i] \o <<":", " ">> \o GqlType(parsedArgs[i])]
        argsString == IF Len(parsedArgs) > 0
                      THEN <<"(">> \o join(argPairs, <<",", " ">>) \o <<")">> ELSE <<>>
        variablesString == IF Len(parsedArgs) > 0
                           THEN <<"(">> \o join(varPairs, <<",", " ">>) \o <<")">> ELSE <<>>
        selectionSet == getBasicSelectionSet(resolver.returnType)
    IN operationType \o <<" ">> \o variablesString \o <<" ", "{", "\n", " ", " ", " ", " ">>
       \o resolver.fieldName \o argsString \o selectionSet \o <<"\n", " ", " ", "}">>

\* "Validate arguments against the tool's input schema": the cast at line 683
CheckArguments(tool, args) == TRUE

\* handleGraphQLResolver from the call to the await of the request
ResolverStart(c, tool, args) ==
    IF state.client = <<>> \/ state.config = <<>>
    THEN /\ outcome' = [NoOutcome EXCEPT !.op = "call", !.step = "CallTool",
                                         !.kind = "McpError", !.code = "InvalidRequest",
                                         !.reason = "not configured",
                                         !.tool = <<tool>>, !.args = <<args>>]
         /\ UNCHANGED calling
    ELSE IF ~CheckArguments(tool, args)
    THEN /\ outcome' = [NoOutcome EXCEPT !.op = "call", !.step = "CallTool",
                                         !.kind = "McpError", !.code = "InvalidParams",
                                         !.reason = "arguments",
                                         !.tool = <<tool>>, !.args = <<args>>]
         /\ UNCHANGED calling
    ELSE LET query == synthesizeQuery(tool, args)
             verdict == validateQueryConstraints(query, state.config[1])
         IN IF ~verdict.ok
            THEN /\ outcome' = [NoOutcome EXCEPT
                        !.op = "call", !.step = "CallTool",
                        !.kind = "McpError", !.code = "InvalidParams",
                        !.reason = verdict.reason, !.names = <<verdict.resolver>>,
                        !.count = verdict.score,
                        !.tool = <<tool>>, !.args = <<args>>, !.text = query]
                 /\ UNCHANGED calling
            ELSE /\ calling' = [calling EXCEPT ![c] =
                        [pc |-> "request", tool |-> <<tool>>, query |-> query,
                         variables |-> args, client |-> state.client]]
                 /\ outcome' = [NoOutcome EXCEPT
                        !.op = "call", !.step = "CallTool", !.kind = "suspended",
                        !.tool = <<tool>>, !.args = <<args>>, !.text = query,
                        !.sent = <<Request(state.client[1], query)>>]

\* a not-found message that lists the dynamic tools only
AvailableTools_dynamicOnly ==
    [i \in DOMAIN state.dynamicTools |-> state.dynamicTools[i].name]

\* line 556: ['get_status', ...state.dynamicTools.map(t => t.name)]
AvailableTools ==
    <<S_get_status>> \o [i \in DOMAIN state.dynamicTools |-> state.dynamicTools[i].name]

\* the CallToolRequestSchema handler
CallTool(c, name, args) ==
    /\ outcome = NoOutcome
    /\ calling[c].pc = "idle"
    /\ \A d \in 1..(c - 1) : calling[d].pc # "idle"
    /\ IF name = S_get_status
       THEN /\ \E now \in Instants :
                outcome' = [NoOutcome EXCEPT !.op = "get_status", !.step = "CallTool",
                                             !.kind = "returned",
                                             !.status = <<handleGetStatus(now)>>]
            /\ UNCHANGED calling
       ELSE LET dynamicTool == findByName(state.dynamicTools, name)
            IN IF dynamicTool # <<>>
               THEN ResolverStart(c, dynamicTool[1], args)
               ELSE /\ outcome' = [NoOutcome EXCEPT
                            !.op = "unknown", !.step = "CallTool",
                            !.kind = "McpError", !.code = "MethodNotFound",
                            !.text = name, !.names = AvailableTools]
                    /\ UNCHANGED calling
    /\ UNCHANGED <<state, env, configuring, probe>>

\* what an endpoint answers a request with, and the errors a request is rejected with
Responses == {"data-1", "data-2"}
RequestErrors == {"transport error", "GraphQL error"}

\* lines 733-740: the text names the field, state.endpoint as it is now, and the
\* JSON of the response; `text` of the outcome is the query text the result carries
SuccessResult(call, result) ==
    [NoOutcome EXCEPT !.op = "call", !.step = "CallOk", !.kind = "returned",
                      !.tool = call.tool, !.args = <<call.variables>>,
                      !.endpoint = state.endpoint,
                      !.names = <<call.client[1].endpoint>>,
                      !.payload = <<result>>]

\* a catch block that lets the error of the request escape to the dispatcher,
\* which wraps it in McpError(InternalError)
FailureResult_rethrown(call, error) ==
    [NoOutcome EXCEPT !.op = "call", !.step = "CallFail", !.kind = "McpError",
                      !.code = "InternalError", !.reason = error,
                      !.tool = call.tool, !.args = <<call.variables>>]

\* lines 749-759: the isError result with the error message and the query text
FailureResult(call, error) ==
    [NoOutcome EXCEPT !.op = "call", !.step = "CallFail", !.kind = "failure",
                      !.reason = error,
                      !.tool = call.tool, !.args = <<call.variables>>,
                      !.text = call.query]

\* the request is answered with data: lines 731-740
CallOk(c) ==
    /\ outcome = NoOutcome
    /\ calling[c].pc = "request"
    /\ calling' = [calling EXCEPT ![c] = IdleCall]
    /\ \E result \in Responses : outcome' = SuccessResult(calling[c], result)
    /\ UNCHANGED <<state, env, configuring, probe>>

\* the request is rejected (transport error, GraphQL errors in the response):
\* lines 741-760
CallFail(c) ==
    /\ outcome = NoOutcome
    /\ calling[c].pc = "request"
    /\ calling' = [calling EXCEPT ![c] = IdleCall]
    /\ \E error \in RequestErrors : outcome' = FailureResult(calling[c], error)
    /\ UNCHANGED <<state, env, configuring, probe>>

\* the turn of the event loop ends: what the step sent, returned or threw has
\* left the handler
Deliver ==
    /\ outcome # NoOutcome
    /\ outcome' = NoOutcome
    /\ UNCHANGED <<state, env, configuring, calling, probe>>

-----------------------------------------------------------------------------
(* Inputs *)

Args(endpoint, headers, timeout, maxDepth, maxComplexity, disabledResolvers) ==
    [endpoint |-> endpoint, headers |-> headers, timeout |-> timeout,
     maxDepth |-> maxDepth, maxComplexity |-> maxComplexity,
     disabledResolvers |-> disabledResolvers]

\* `{}`: what main's auto-configuration passes
NoArgs == Args(<<>>, <<>>, <<>>, <<>>, <<>>, <<>>)

ConfigureArgsSet ==
    { NoArgs,
      Args(<<EndpointA>>, <<[k \in {"Authorization"} |-> <<"secret">>]>>, <<>>, <<>>, <<>>,
           <<<<S_user>>>>),
      Args(<<EndpointA>>, <<>>, <<>>, <<1>>, <<>>, <<>>),
      Args(<<EndpointB>>, <<>>, <<>>, <<1>>, <<1>>, <<<<S_name, S_ping>>>>),
      Args(<<NotAUrl>>, <<>>, <<>>, <<>>, <<>>, <<>>),
      Args(<<EndpointA>>, <<>>, <<500>>, <<>>, <<>>, <<>>),
      Args(<<EndpointA>>, <<>>, <<>>, <<21>>, <<>>, <<>>),
      Args(<<EndpointA>>, <<>>, <<>>, <<>>, <<0>>, <<>>) }

NoEnv ==
    [GRAPHQL_ENDPOINT |-> <<>>, GRAPHQL_TIMEOUT |-> <<>>, GRAPHQL_MAX_DEPTH |-> <<>>,
     GRAPHQL_MAX_COMPLEXITY |-> <<>>, GRAPHQL_DISABLED_RESOLVERS |-> <<>>,
     GRAPHQL_AUTH_TOKEN |-> <<>>, GRAPHQL_API_KEY |-> <<>>]

\* GRAPHQL_ENDPOINT=<A> GRAPHQL_TIMEOUT=5000 GRAPHQL_MAX_DEPTH=5
\* GRAPHQL_MAX_COMPLEXITY=abc GRAPHQL_DISABLED_RESOLVERS="ping, users" GRAPHQL_AUTH_TOKEN=t
FullEnv ==
    [GRAPHQL_ENDPOINT |-> <<EndpointA>>,
     GRAPHQL_TIMEOUT |-> <<(<<"5", "0", "0", "0">>)>>,
     GRAPHQL_MAX_DEPTH |-> <<(<<"5">>)>>,
     GRAPHQL_MAX_COMPLEXITY |-> <<(<<"a", "b", "c">>)>>,
     GRAPHQL_DISABLED_RESOLVERS |-> <<(<<"p", "i", "n", "g", ",", " ", "u", "s", "e", "r", "s">>)>>,
     GRAPHQL_AUTH_TOKEN |-> <<"t">>,
     GRAPHQL_API_KEY |-> <<>>]

EnvSet == {NoEnv, FullEnv}

\* the names a caller may ask for: the documented tools, every name a schema of
\* the model gives a tool, and one that no schema gives
ToolNames ==
    { S_get_status, S_configure_graphql,
      S_query_ \o S_user, S_query_ \o S_users, S_query_ \o S_ping,
      S_mutation_ \o S_addUser, S_query_ \o S_name, S_query_ \o S_item,
      S_query_ \o S_role }

\* the documented static tools
StaticNames == { S_get_status, S_configure_graphql, S_introspect_schema, S_execute_query }

\* the keys of the caller's argument object
CallArgsSet == { <<>>, <<S_id>>, <<S_x>> }

-----------------------------------------------------------------------------
(* The pure-function harness: SafetyGuard applied to a text and its limits *)

NoProbe == [text |-> <<>>, config |-> <<>>, type |-> <<>>, verdict |-> <<>>, scores |-> <<>>]

\* the characters of the texts: a word character, the braces, the opening
\* parenthesis, a blank and the start of a line comment
GuardAlphabet == {"a", "{", "}", "(", " ", "#"}

\* two longer documents: three nested selection sets, and one field with a
\* selection set of three leaf fields
NestedText ==
    <<"{", " ", "a", " ", "{", " ", "b", " ", "{", " ", "c", " ", "}", " ", "}", " ", "}">>

CountriesText ==
    <<"{", " ", "c", "o", "u", "n", "t", "r", "i", "e", "s", " ", "{", " ", "n", "a", "m", "e", " ", "c", "o", "d", "e", " ", "e", "m", "o", "j", "i", " ", "}", " ", "}">>

GuardTexts ==
    UNION {[1..k -> GuardAlphabet] : k \in 0..MaxTextLen} \cup {NestedText, CountriesText}

\* a stored configuration with the given limits
GuardConfig(maxComplexity, maxDepth, disabledResolvers) ==
    [endpoint |-> EndpointA, timeout |-> DefaultTimeout, maxDepth |-> maxDepth,
     maxComplexity |-> maxComplexity, disabledResolvers |-> disabledResolvers,
     headers |-> NoHeaders]

GuardConfigs ==
    {GuardConfig(mc, md, dis) : mc \in {1, 2}, md \in {1, 2}, dis \in {<<>>, <<(<<"A">>)>>, <<(<<"a", "a">>), (<<"A">>)>>}}

\* validateQueryConstraints applied to the drawn text under the drawn limits
Validate ==
    /\ probe.verdict = <<>>
    /\ probe.scores = <<>>
    /\ probe.config # <<>>
    /\ probe' = [probe EXCEPT
            !.verdict = <<validateQueryConstraints(probe.text, probe.config[1])>>]
    /\ UNCHANGED <<state, env, configuring, calling, outcome>>

-----------------------------------------------------------------------------
(* Specifications *)

Init ==
    /\ state = Unconfigured
    /\ env \in EnvSet
    /\ configuring = [p \in ConfigureIds |-> IdleConfigure]
    /\ calling = [c \in CallIds |-> IdleCall]
    /\ outcome = NoOutcome
    /\ probe = NoProbe

\* the configure handler, activations overlapping at their awaits, and the
\* static tool names through the dispatcher
NextConfigure ==
    \/ \E p \in ConfigureIds, args \in ConfigureArgsSet : ConfigureStart(p, args)
    \/ \E p \in ConfigureIds : ProbeFail(p)
    \/ \E p \in ConfigureIds : ProbeOk(p)
    \/ \E p \in ConfigureIds : IntrospectOk(p)
    \/ \E p \in ConfigureIds : IntrospectFail(p)
    \/ \E c \in CallIds, name \in StaticNames : CallTool(c, name, <<>>)
    \/ Deliver

SpecConfigure == Init /\ [][NextConfigure]_vars

NoConfigureInFlight == \A p \in ConfigureIds : configuring[p].pc = "idle"

\* tool invocations, overlapping each other and a configure request; configure
\* requests come one at a time
NextInvoke ==
    \/ \E args \in ConfigureArgsSet : NoConfigureInFlight /\ ConfigureStart(1, args)
    \/ \E p \in ConfigureIds : ProbeFail(p)
    \/ \E p \in ConfigureIds : ProbeOk(p)
    \/ \E p \in ConfigureIds : IntrospectOk(p)
    \/ \E p \in ConfigureIds : IntrospectFail(p)
    \/ \E c \in CallIds, name \in ToolNames, args \in CallArgsSet : CallTool(c, name, args)
    \/ \E c \in CallIds : CallOk(c)
    \/ \E c \in CallIds : CallFail(c)
    \/ Deliver

SpecInvoke == Init /\ [][NextInvoke]_vars

\* the characters of the sanitizer's texts: the two characters of the block
\* comment markers and a blank
CommentAlphabet == {"/", "*", " "}

CommentTexts == UNION {[1..k -> CommentAlphabet] : k \in 0..MaxCommentLen}

\* sanitizeQuery applied to the drawn text
Sanitize ==
    /\ probe.verdict = <<>>
    /\ probe.config = <<>>
    /\ probe' = [probe EXCEPT !.verdict = <<sanitizeQuery(probe.text)>>]
    /\ UNCHANGED <<state, env, configuring, calling, outcome>>

InitSanitize ==
    /\ state = Unconfigured
    /\ env = NoEnv
    /\ configuring = [p \in ConfigureIds |-> IdleConfigure]
    /\ calling = [c \in CallIds |-> IdleCall]
    /\ outcome = NoOutcome
    /\ probe \in {[NoProbe EXCEPT !.text = t] : t \in CommentTexts}

NextSanitize == Sanitize

SpecSanitize == InitSanitize /\ [][NextSanitize]_vars

\* the leaves of the type references: named types of the schemas
LeafTypes == {Scalar(S_String), Scalar(S_ID), Object(S_User), Enum(S_Role)}

\* the type references of at most n wrappers that introspection can answer
\* with: NON_NULL never wraps NON_NULL
RECURSIVE TypeRefs(_)
TypeRefs(n) ==
    IF n = 0 THEN LeafTypes
    ELSE LET inner == TypeRefs(n - 1)
         IN inner \cup {List(t) : t \in inner}
                  \cup {NonNull(t) : t \in {u \in inner : u.kind # "NON_NULL"}}

\* getGraphQLTypeString and getLeafType applied to the drawn type reference
Render ==
    /\ probe.verdict = <<>>
    /\ probe.type # <<>>
    /\ probe' = [probe EXCEPT
            !.verdict = <<[signature |-> getGraphQLTypeString(probe.type[1]),
                           leaf |-> getLeafType(probe.type[1])]>>]
    /\ UNCHANGED <<state, env, configuring, calling, outcome>>

InitTypes ==
    /\ state = Unconfigured
    /\ env = NoEnv
    /\ configuring = [p \in ConfigureIds |-> IdleConfigure]
    /\ calling = [c \in CallIds |-> IdleCall]
    /\ outcome = NoOutcome
    /\ probe \in {[NoProbe EXCEPT !.type = <<t>>] : t \in TypeRefs(MaxWrap)}

NextTypes == Render

SpecTypes == InitTypes /\ [][NextTypes]_vars

InitGuard ==
    /\ state = Unconfigured
    /\ env = NoEnv
    /\ configuring = [p \in ConfigureIds |-> IdleConfigure]
    /\ calling = [c \in CallIds |-> IdleCall]
    /\ outcome = NoOutcome
    /\ probe \in {[NoProbe EXCEPT !.text = t, !.config = <<cfg>>] :
                    t \in GuardTexts, cfg \in GuardConfigs}

\* calculateQueryDepth and calculateQueryComplexity applied to the drawn text
Score ==
    /\ probe.verdict = <<>>
    /\ probe.scores = <<>>
    /\ probe.config # <<>>
    /\ probe' = [probe EXCEPT
            !.scores = <<[depth |-> calculateQueryDepth(probe.text),
                          complexity |-> calculateQueryComplexity(probe.text)]>>]
    /\ UNCHANGED <<state, env, configuring, calling, outcome>>

NextGuard == Validate \/ Score

SpecGuard == InitGuard /\ [][NextGuard]_vars

-----------------------------------------------------------------------------
(* Claims *)

ErrorKinds == {"McpError", "ZodError"}

\* the handler step that has just run belongs to a configure request and threw
ConfigureFailed == outcome.op = "configure" /\ outcome.kind \in ErrorKinds

\* what get_status reports as `configured`
StatusConfigured == handleGetStatus(MaxNow).configured

ArgsInContract(args) ==
    /\ args.endpoint # <<>> => IsUrl(args.endpoint[1])
    /\ args.timeout # <<>> => (args.timeout[1] >= MinTimeout /\ args.timeout[1] <= MaxTimeout)
    /\ args.maxDepth # <<>> => (args.maxDepth[1] >= MinMaxDepth /\ args.maxDepth[1] <= MaxMaxDepth)
    /\ args.maxComplexity # <<>> =>
            (args.maxComplexity[1] >= MinMaxComplexity /\ args.maxComplexity[1] <= MaxMaxComplexity)

\* an endpoint resolves from the arguments or from the environment
EndpointResolves(args) == args.endpoint # <<>> \/ IsSetAtom(env.GRAPHQL_ENDPOINT)

\* the configure step that has just run is one of the failures before the probe
\* succeeds: bad arguments, no endpoint, or the probe request failed
FailsBeforeProbe ==
    /\ outcome.op = "configure"
    /\ \/ outcome.step = "ProbeFail"
       \/ /\ outcome.step = "ConfigureStart"
          /\ (~ArgsInContract(outcome.args[1]) \/ ~EndpointResolves(outcome.args[1]))

\* C2: in the unconfigured state, no step of a configure request other than the
\* answer of a successful probe writes `state` (client, endpoint, config, cached
\* schema, timestamp and tools keep their unconfigured values), and a request that
\* fails before the probe succeeds throws its error to the caller.
C2_NoPartialStateBeforeProbe ==
    [][ ( /\ state = Unconfigured
          /\ outcome'.op = "configure"
          /\ outcome'.step # "ProbeOk" )
        => ( /\ state' = Unconfigured
             /\ FailsBeforeProbe' => outcome'.kind \in ErrorKinds ) ]_vars

\* C2 witness: a probe has just failed for a request made in the unconfigured state.
C2_Witness ==
    /\ state = Unconfigured
    /\ FailsBeforeProbe
    /\ outcome.step = "ProbeFail"
    /\ outcome.kind = "McpError"

\* C3: when the introspection request fails after the probe succeeded, configure
\* returns its success summary with a tool count of zero, get_status reports
\* configured=true and the dynamic tool list is empty.
C3_IntrospectionFailureIsSuccess ==
    outcome.step = "IntrospectFail"
    => /\ outcome.kind = "returned"
       /\ outcome.count = 0
       /\ StatusConfigured
       /\ state.dynamicTools = <<>>
       /\ state # Unconfigured

\* C3 witness: an introspection has just failed.
C3_Witness ==
    /\ outcome.step = "IntrospectFail"
    /\ outcome.kind = "returned"
    /\ StatusConfigured

\* the handler step that has just run is the dispatch of a call to a registered
\* dynamic tool while a configuration is active
ResolverInvoked ==
    /\ outcome.op = "call"
    /\ outcome.step = "CallTool"
    /\ state.client # <<>>
    /\ state.config # <<>>

\* the document synthesized for the invocation that has just been dispatched
InvokedQuery == synthesizeQuery(outcome.tool[1], outcome.args[1])

\* the text exceeds the complexity limit, exceeds the depth limit, or mentions
\* a disabled resolver
ViolatesLimits(text, config) ==
    LET sanitized == sanitizeQuery(text)
    IN \/ calculateQueryComplexity(sanitized) > config.maxComplexity
       \/ calculateQueryDepth(sanitized) > config.maxDepth
       \/ \E i \in DOMAIN config.disabledResolvers :
            includes(toLowerCase(sanitized), toLowerCase(config.disabledResolvers[i]))

\* C4: an invocation whose synthesized query violates the complexity limit, the
\* depth limit or the disabled-resolver check sends nothing on the network and
\* is answered with a thrown InvalidParams error, not with a failure result.
C4_RejectionIsValidationError ==
    (ResolverInvoked /\ ViolatesLimits(InvokedQuery, state.config[1]))
    => /\ outcome.sent = <<>>
       /\ outcome.kind = "McpError"
       /\ outcome.code = "InvalidParams"

\* C4 witness: an invocation has just been rejected for its depth, with its
\* complexity within the limit.
C4_Witness ==
    /\ ResolverInvoked
    /\ outcome.kind = "McpError"
    /\ outcome.reason = "depth"
    /\ calculateQueryDepth(sanitizeQuery(InvokedQuery)) > state.config[1].maxDepth

\* C5: no exposed dynamic tool has a field name that is a member (exact match) of
\* the active configuration's disabledResolvers, also when configure requests
\* overlap at their awaits.
C5_NoDisabledToolExposed ==
    \A i \in DOMAIN state.dynamicTools :
        /\ state.config # <<>>
        /\ ~arrayIncludes(state.config[1].disabledResolvers,
                          state.dynamicTools[i].resolver.fieldName)

\* C5 witness: two requests overlapped: the tools were built from the schema of
\* endpoint A while the active configuration is the one for endpoint B, whose
\* list disables `ping`, a field of A's schema.
C5_Witness ==
    /\ state.cachedSchema = <<SchemaA>>
    /\ state.config # <<>>
    /\ state.config[1].endpoint = EndpointB
    /\ arrayIncludes(state.config[1].disabledResolvers, S_ping)
    /\ Len(state.dynamicTools) > 0

\* the fields of the root type `root` names in the introspected schema
RootFields(schema, root) ==
    IF root = <<>> THEN <<>>
    ELSE LET hit == {i \in DOMAIN schema.__schema.types :
                        schema.__schema.types[i].name = root[1].name}
         IN IF hit = {} THEN <<>>
            ELSE schema.__schema.types[CHOOSE i \in hit : \A j \in hit : i <= j].fields

\* the names of the fields of `fields` that `disabled` does not list, each with `prefix`
ExpectedNames(fields, disabled, prefix) ==
    {prefix \o fields[i].name : i \in {j \in DOMAIN fields : fields[j].name \notin Range(disabled)}}

ExpectedCount(fields, disabled) ==
    Len(fields) - Cardinality({j \in DOMAIN fields : fields[j].name \in Range(disabled)})

\* C6: the number of dynamic tools built from a schema is the number of fields
\* of the root Query type plus that of the root Mutation type (if present) minus
\* the fields named in disabledResolvers, and the tools are named query_<field> and
\* mutation_<field> after the root type they come from.
C6_ToolCount ==
    state.cachedSchema # <<>> =>
        LET schema == state.cachedSchema[1]
            disabled == state.config[1].disabledResolvers
            queries == RootFields(schema, schema.__schema.queryType)
            mutations == RootFields(schema, schema.__schema.mutationType)
        IN /\ Len(state.dynamicTools) =
                ExpectedCount(queries, disabled) + ExpectedCount(mutations, disabled)
           /\ {state.dynamicTools[i].name : i \in DOMAIN state.dynamicTools} =
                ExpectedNames(queries, disabled, S_query_)
                \cup ExpectedNames(mutations, disabled, S_mutation_)
           /\ \A i \in DOMAIN state.dynamicTools :
                state.dynamicTools[i].name =
                    (IF state.dynamicTools[i].resolver.type = "mutation"
                     THEN S_mutation_ ELSE S_query_)
                    \o state.dynamicTools[i].resolver.fieldName

\* C6 witness: the tools of a schema with a Mutation type, one of whose Query
\* fields is disabled.
C6_Witness ==
    /\ state.cachedSchema = <<SchemaA>>
    /\ arrayIncludes(state.config[1].disabledResolvers, S_user)
    /\ Len(state.dynamicTools) = 3
    /\ \E i \in DOMAIN state.dynamicTools : state.dynamicTools[i].resolver.type = "mutation"

\* the argument keys satisfy the tool's parameter schema: every key is a declared
\* property (additionalProperties is false) and every required name is given
SatisfiesInputSchema(tool, args) ==
    /\ \A i \in DOMAIN args :
        \E j \in DOMAIN tool.inputSchema.properties :
            tool.inputSchema.properties[j].name = args[i]
    /\ \A j \in DOMAIN tool.inputSchema.required :
        arrayIncludes(args, tool.inputSchema.required[j])

\* C7: an invocation whose arguments do not satisfy the tool's parameter schema
\* (an undeclared argument name, or a required argument missing) is rejected with
\* a validation error and sends nothing on the network.
C7_InvalidArgumentsRejected ==
    (ResolverInvoked /\ ~SatisfiesInputSchema(outcome.tool[1], outcome.args[1]))
    => /\ outcome.kind = "McpError"
       /\ outcome.sent = <<>>

\* the value the precedence argument > environment > default gives one setting
Precedence(argument, environment, default) ==
    IF argument # <<>> THEN argument[1]
    ELSE IF environment # <<>> THEN environment[1]
    ELSE default

\* C8: the configuration a configure request stores has, for timeout, maxDepth,
\* maxComplexity, disabledResolvers and the endpoint, the explicit argument when
\* given, else the environment's value when set, else the built-in default.
C8_Precedence ==
    outcome.step = "ProbeOk" =>
        LET given == outcome.args[1]
            envConfig == loadEnvironmentConfig
            stored == state.config[1]
        IN /\ stored.timeout = Precedence(given.timeout, envConfig.timeout, DefaultTimeout)
           /\ stored.maxDepth = Precedence(given.maxDepth, envConfig.maxDepth, DefaultMaxDepth)
           /\ stored.maxComplexity =
                Precedence(given.maxComplexity, envConfig.maxComplexity, DefaultMaxComplexity)
           /\ stored.disabledResolvers =
                Precedence(given.disabledResolvers, envConfig.disabledResolvers, <<>>)
           /\ stored.endpoint = Precedence(given.endpoint, envConfig.endpoint, "")

\* the limits of a stored configuration lie in their ranges
LimitsInRange(config) ==
    /\ config.timeout >= MinTimeout /\ config.timeout <= MaxTimeout
    /\ config.maxDepth >= MinMaxDepth /\ config.maxDepth <= MaxMaxDepth
    /\ config.maxComplexity >= MinMaxComplexity /\ config.maxComplexity <= MaxMaxComplexity

\* a limit of the request lies outside its range
OutOfRange(args) ==
    \/ ~InRange(args.timeout, MinTimeout, MaxTimeout)
    \/ ~InRange(args.maxDepth, MinMaxDepth, MaxMaxDepth)
    \/ ~InRange(args.maxComplexity, MinMaxComplexity, MaxMaxComplexity)

\* the configure request that has just been started
ConfigureRequested == outcome.op = "configure" /\ outcome.step = "ConfigureStart"

\* C9 as stated: a configure request with a limit outside its range is accepted
\* (its value clamped), and the stored limits are always inside their ranges.
C9_OutOfRangeIsClamped ==
    /\ (ConfigureRequested /\ OutOfRange(outcome.args[1])
            /\ (outcome.args[1].endpoint = <<>> => IsSetAtom(env.GRAPHQL_ENDPOINT)))
        => outcome.kind = "suspended"
    /\ state.config # <<>> => LimitsInRange(state.config[1])

\* C9 amended: a configure request with a limit outside its range is rejected
\* with a validation error, starts no probe and writes no state; the stored
\* limits are always inside their ranges.
C9_OutOfRangeIsRejected ==
    [][ /\ (ConfigureRequested' /\ OutOfRange(outcome'.args[1]))
            => /\ outcome'.kind = "ZodError"
               /\ outcome'.sent = <<>>
               /\ state' = state
               /\ configuring' = configuring
        /\ state'.config # <<>> => LimitsInRange(state'.config[1]) ]_vars

\* C9 witness: a request with timeout 500 has just been rejected.
C9_Witness ==
    /\ ConfigureRequested
    /\ outcome.kind = "ZodError"
    /\ outcome.args[1].timeout = <<500>>

\* the verdict the ordered checks give: complexity, then depth, then disabled
\* resolvers, each on the sanitized text
FirstViolation(text, config) ==
    LET sanitized == sanitizeQuery(text)
        mentioned == {i \in DOMAIN config.disabledResolvers :
                        includes(toLowerCase(sanitized),
                                 toLowerCase(config.disabledResolvers[i]))}
    IN IF calculateQueryComplexity(sanitized) > config.maxComplexity THEN "complexity"
       ELSE IF calculateQueryDepth(sanitized) > config.maxDepth THEN "depth"
       ELSE IF mentioned # {} THEN "disabled"
       ELSE "none"

\* C10: validateQueryConstraints checks, on the sanitized text, complexity, then
\* depth, then disabled resolvers: a text is rejected with the reason of the first
\* check it violates in that order, and a text violating none is accepted.
C10_FirstViolationWins ==
    probe.verdict # <<>> =>
        LET first == FirstViolation(probe.text, probe.config[1])
        IN /\ probe.verdict[1].ok <=> first = "none"
           /\ ~probe.verdict[1].ok => probe.verdict[1].reason = first

\* C10 witness: a text violating all three limits is rejected for its complexity.
C10_Witness ==
    /\ probe.verdict # <<>>
    /\ ~probe.verdict[1].ok
    /\ probe.verdict[1].reason = "complexity"
    /\ calculateQueryDepth(sanitizeQuery(probe.text)) > probe.config[1].maxDepth
    /\ includes(toLowerCase(sanitizeQuery(probe.text)), <<"a">>)
    /\ probe.config[1].disabledResolvers # <<>>

\* the text is within the complexity and depth limits of the configuration
WithinLimits(text, config) ==
    /\ calculateQueryComplexity(sanitizeQuery(text)) <= config.maxComplexity
    /\ calculateQueryDepth(sanitizeQuery(text)) <= config.maxDepth

\* the positions of the disabled names that occur in the sanitized text, case ignored
Mentioned(text, config) ==
    {i \in DOMAIN config.disabledResolvers :
        includes(toLowerCase(sanitizeQuery(text)), toLowerCase(config.disabledResolvers[i]))}

\* C11: a text within the complexity and depth limits is rejected if and only if
\* a disabled resolver name occurs in its sanitized form as a case-insensitive
\* substring, and the rejection names the first such name of the list.
C11_DisabledSubstringRejects ==
    (probe.verdict # <<>> /\ WithinLimits(probe.text, probe.config[1])) =>
        LET hits == Mentioned(probe.text, probe.config[1])
        IN /\ probe.verdict[1].ok <=> hits = {}
           /\ hits # {} =>
                /\ probe.verdict[1].reason = "disabled"
                /\ probe.verdict[1].resolver =
                     probe.config[1].disabledResolvers[CHOOSE i \in hits : \A j \in hits : i <= j]

\* C11 witness: a text in which the lower-case letter occurs once, outside any
\* field position, is rejected for the upper-case name, the second of the list
\* and the first that occurs.
C11_Witness ==
    /\ probe.verdict # <<>>
    /\ WithinLimits(probe.text, probe.config[1])
    /\ Len(probe.config[1].disabledResolvers) = 2
    /\ probe.text = <<"}", "a">>
    /\ probe.verdict[1].reason = "disabled"
    /\ probe.verdict[1].resolver = <<"A">>

\* an invocation whose request was outstanding has just completed in slot c
Completed(c) == calling[c].pc = "request" /\ calling'[c].pc # "request"

\* C12: when the request of an invocation fails (transport error or GraphQL
\* error), the invocation returns a failure result with the error message and
\* the query text that was attempted, nothing is thrown, the session state is
\* unchanged and the activation is over, so that the next invocation is served.
C12_RequestFailureIsResult ==
    [][ \A c \in CallIds :
            (Completed(c) /\ outcome'.step = "CallFail")
            => /\ outcome'.kind = "failure"
               /\ outcome'.reason \in RequestErrors
               /\ outcome'.text = calling[c].query
               /\ outcome'.text # <<>>
               /\ state' = state
               /\ calling'[c] = IdleCall ]_vars

\* C12 witness: a request has just failed with a GraphQL-level error, and the
\* result carries the query that was sent.
C12_Witness ==
    /\ outcome.step = "CallFail"
    /\ outcome.kind = "failure"
    /\ outcome.reason = "GraphQL error"
    /\ outcome.text = synthesizeQuery(outcome.tool[1], outcome.args[1])
    /\ state.client # <<>>

\* C13: the result of a successful invocation carries the response payload and
\* the text of the query that was executed.
C13_SuccessCarriesQuery ==
    [][ \A c \in CallIds :
            (Completed(c) /\ outcome'.step = "CallOk")
            => /\ outcome'.kind = "returned"
               /\ outcome'.payload # <<>>
               /\ outcome'.text = calling[c].query ]_vars

\* the tool name of the call the dispatcher has just handled
RequestedName ==
    IF outcome.op = "unknown" THEN outcome.text
    ELSE IF outcome.op = "call" THEN outcome.tool[1].name
    ELSE S_get_status

\* the name is that of a resolver tool: query_<field> or mutation_<field>
IsResolverName(name) ==
    \/ OccursAt(name, S_query_, 1)
    \/ OccursAt(name, S_mutation_, 1)

Dispatched == outcome.step = "CallTool"

\* C14: while no configuration is active, a call of a resolver tool is rejected
\* and sends nothing; while one is active, a name that is neither get_status nor
\* the name of a registered dynamic tool is rejected with MethodNotFound, and the
\* message lists get_status followed by the name of every registered dynamic tool.
C14_UnknownToolRejected ==
    Dispatched =>
        /\ (state.client = <<>> /\ IsResolverName(RequestedName))
            => /\ outcome.kind = "McpError"
               /\ outcome.sent = <<>>
               /\ calling = [c \in CallIds |-> IdleCall]
        /\ (/\ state.client # <<>>
            /\ RequestedName # S_get_status
            /\ \A i \in DOMAIN state.dynamicTools : state.dynamicTools[i].name # RequestedName)
            => /\ outcome.kind = "McpError"
               /\ outcome.code = "MethodNotFound"
               /\ outcome.sent = <<>>
               /\ Len(outcome.names) = 1 + Len(state.dynamicTools)
               /\ outcome.names[1] = S_get_status
               /\ \A i \in DOMAIN state.dynamicTools :
                    outcome.names[i + 1] = state.dynamicTools[i].name

\* C14 witness: with a configuration active and tools registered, a call of the
\* name of a field that the catalog skipped has just been rejected.
C14_Witness ==
    /\ Dispatched
    /\ state.client # <<>>
    /\ Len(state.dynamicTools) > 1
    /\ IsResolverName(RequestedName)
    /\ outcome.code = "MethodNotFound"

\* C15: a call of one of the four documented tools (configure_graphql,
\* introspect_schema, execute_query, get_status) is routed to a handler: it is
\* never rejected as an unknown tool.
C15_DocumentedToolsRouted ==
    (Dispatched /\ RequestedName \in StaticNames) => outcome.code # "MethodNotFound"

\* the options the client of a request was constructed with
ClientOptions(request) == DOMAIN request.client \ {"endpoint"}

\* C16: every request (probe, introspection, query execution) is issued by a
\* client that was given the configured timeout, which is what makes an
\* invocation return a failure result when the endpoint never answers.
C16_RequestsCarryTimeout ==
    outcome.sent # <<>> =>
        /\ "timeout" \in ClientOptions(outcome.sent[1])
        /\ state.config # <<>> => outcome.sent[1].client.timeout = state.config[1].timeout

\* the kind of the leaf return type of the field the tool was built from, looked
\* up in the schema the tools were built from
LeafKindOf(tool) ==
    LET schema == state.cachedSchema[1]
        root == IF tool.resolver.type = "mutation" THEN schema.__schema.mutationType
                ELSE schema.__schema.queryType
        field == findByName(RootFields(schema, root), tool.resolver.fieldName)
    IN getLeafType(field[1].type).kind

\* the document selects sub-fields of its field: it opens a second brace
HasSelectionSet(query) == calculateQueryDepth(query) > 1

\* a document has just been synthesized for a call of a registered tool
Synthesized == ResolverInvoked /\ outcome.text # <<>> /\ state.cachedSchema # <<>>

\* C17: the document synthesized for a field whose leaf return type is a scalar
\* or an enum has no selection set; only object-typed leaf return types get one.
C17_NoSelectionSetForLeaves ==
    Synthesized =>
        (HasSelectionSet(outcome.text) <=> LeafKindOf(outcome.tool[1]) = "OBJECT")

\* C18: an invocation completes against what it captured when it started: the
\* endpoint named in its result is the endpoint its request was sent to, also
\* when a reconfiguration replaced the session while the request was outstanding.
C18_ResultNamesEndpointUsed ==
    [][ \A c \in CallIds :
            (Completed(c) /\ outcome'.step = "CallOk")
            => outcome'.endpoint = <<calling[c].client[1].endpoint>> ]_vars

\* C19: sanitizing is idempotent: sanitizing a sanitized text changes nothing.
C19_SanitizeIdempotent ==
    (probe.config = <<>> /\ probe.verdict # <<>>)
    => sanitizeQuery(probe.verdict[1]) = probe.verdict[1]

\* a type signature read back: a trailing `!` is NON_NULL, surrounding `[ ]` is
\* LIST, anything else is the name of the leaf
RECURSIVE ParseSignature(_)
ParseSignature(s) ==
    IF Len(s) > 0 /\ s[Len(s)] = "!"
    THEN [kind |-> "NON_NULL", ofType |-> ParseSignature(SubSeq(s, 1, Len(s) - 1))]
    ELSE IF Len(s) > 1 /\ s[1] = "[" /\ s[Len(s)] = "]"
    THEN [kind |-> "LIST", ofType |-> ParseSignature(SubSeq(s, 2, Len(s) - 1))]
    ELSE [kind |-> "NAMED", name |-> s]

\* the wrapper structure of a type reference, its leaf reduced to its name
RECURSIVE WrapperShape(_)
WrapperShape(type) ==
    IF type.kind \in {"NON_NULL", "LIST"}
    THEN [kind |-> type.kind, ofType |-> WrapperShape(type.ofType)]
    ELSE [kind |-> "NAMED", name |-> type.name]

\* the number of wrappers of the given kind in a type reference
RECURSIVE WrapperCount(_, _)
WrapperCount(type, kind) ==
    IF type.kind \in {"NON_NULL", "LIST"}
    THEN WrapperCount(type.ofType, kind) + (IF type.kind = kind THEN 1 ELSE 0)
    ELSE 0

\* the number of occurrences of a character in a text
Occurrences(s, ch) == Cardinality({i \in DOMAIN s : s[i] = ch})

\* C20: the rendered signature of a type reference encodes its wrappers exactly:
\* one `!` per NON_NULL, one pair of brackets per LIST, and reading the signature
\* back gives the original NON_NULL/LIST nesting around the leaf's name; getLeafType
\* returns that leaf.
C20_SignatureRoundTrip ==
    (probe.type # <<>> /\ probe.verdict # <<>>) =>
        LET type == probe.type[1]
            signature == probe.verdict[1].signature
            leaf == probe.verdict[1].leaf
        IN /\ ParseSignature(signature) = WrapperShape(type)
           /\ Occurrences(signature, "!") = WrapperCount(type, "NON_NULL")
           /\ Occurrences(signature, "[") = WrapperCount(type, "LIST")
           /\ Occurrences(signature, "]") = WrapperCount(type, "LIST")
           /\ leaf \in LeafTypes
           /\ WrapperCount(leaf, "LIST") + WrapperCount(leaf, "NON_NULL") = 0
           /\ OccursAt(signature, leaf.name, 1 + WrapperCount(type, "LIST"))

\* C20 witness: NON_NULL(LIST(NON_NULL(String))) has been rendered as [String!]!
C20_Witness ==
    /\ probe.type = <<NonNull(List(NonNull(Scalar(S_String))))>>
    /\ probe.verdict # <<>>
    /\ probe.verdict[1].signature = <<"[">> \o S_String \o <<"!", "]", "!">>
    /\ probe.verdict[1].leaf = Scalar(S_String)

\* the introspection request of a configure request is outstanding
IntrospectionOutstanding == \E p \in ConfigureIds : configuring[p].pc = "introspect"

\* C21: after a probe succeeded, the tools and the cached schema of the previous
\* configuration are gone before the introspection request is issued: while the
\* introspection is outstanding, and when it has just failed, the tool list and
\* the schema cache are empty.
C21_ClearedBeforeIntrospection ==
    (IntrospectionOutstanding \/ outcome.step = "IntrospectFail")
    => /\ state.dynamicTools = <<>>
       /\ state.cachedSchema = <<>>
       /\ state.schemaTimestamp = 0

\* C21 witness: a reconfiguration is waiting for its introspection while an
\* invocation of a tool of the previous configuration is still in flight.
C21_Witness ==
    /\ IntrospectionOutstanding
    /\ \E c \in CallIds : calling[c].pc = "request"
    /\ state.dynamicTools = <<>>
    /\ state.cachedSchema = <<>>

\* the variable declaration `$name: Type` and the argument application
\* `name: $name` of one argument
Declaration(name, type) == <<"$">> \o name \o <<":", " ">> \o getGraphQLTypeString(type)
Application(name) == name \o <<":", " ", "$">> \o name

\* C22: the variable clause and the argument clause of a synthesized document
\* list the same names, each variable is declared with the type signature of the
\* field's argument of that name, and both clauses are empty when the field takes
\* no arguments, whatever the caller passes.
C22_ClausesFollowDescriptor ==
    Synthesized =>
        LET resolver == outcome.tool[1].resolver
            given == outcome.args[1]
        IN /\ resolver.args = <<>> => ~includes(outcome.text, <<"(">>)
           /\ \A i \in DOMAIN given :
                LET arg == findByName(resolver.args, given[i])
                IN /\ arg # <<>>
                   /\ includes(outcome.text, Declaration(given[i], arg[1].type))
                   /\ includes(outcome.text, Application(given[i]))
           /\ Occurrences(outcome.text, "$") = 2 * Len(given)

\* the selection set the policy gives an object type: its first SelectionLimit
\* fields whose leaf type is a scalar or an enum, or the fallback list
PolicySelection(typeName) ==
    LET type == findByName(state.cachedSchema[1].__schema.types, typeName)
        IsLeafField(field) == getLeafType(field.type).kind \in {"SCALAR", "ENUM"}
        found == IF type = <<>> THEN <<>> ELSE SelectSeq(type[1].fields, IsLeafField)
        first == [i \in 1..(IF Len(found) < SelectionLimit THEN Len(found)
                            ELSE SelectionLimit) |-> found[i].name]
    IN IF first = <<>> THEN commonFields ELSE first

\* the text ends with the given selection set and the closing of the operation
EndsWithSelection(text, names) ==
    LET tail == Braced(names) \o <<"\n", " ", " ", "}">>
    IN Len(text) >= Len(tail) /\ OccursAt(text, tail, Len(text) - Len(tail) + 1)

\* C23: for an object-typed leaf return type, the selection set is the first at
\* most 5 fields, in declaration order, whose leaf type is a scalar (built-in or
\* custom) or an enum, and the list id, name, code, title when there is none.
C23_SelectionPolicy ==
    (Synthesized /\ LeafKindOf(outcome.tool[1]) = "OBJECT")
    => EndsWithSelection(outcome.text, PolicySelection(outcome.tool[1].resolver.returnType))

\* the number of `{` minus the number of `}` among the first k characters
Balance(text, k) ==
    Cardinality({i \in 1..k : text[i] = "{"}) - Cardinality({i \in 1..k : text[i] = "}"})

\* the largest balance of a prefix, the empty prefix included
MaxBalance(text) ==
    CHOOSE m \in 0..Len(text) :
        /\ \E k \in 0..Len(text) : Balance(text, k) = m
        /\ \A k \in 0..Len(text) : Balance(text, k) <= m

\* C24: the depth score of a text is the maximum over its prefixes of the number
\* of `{` minus the number of `}`, and 0 when that never exceeds 0; it is defined
\* for unbalanced texts too, where the counter goes below zero.
\* The worked example, three nested selection sets, scores 3.
C24_DepthIsMaxBalance ==
    probe.scores # <<>> =>
        /\ probe.scores[1].depth = MaxBalance(probe.text)
        /\ probe.text = NestedText => probe.scores[1].depth = 3

\* C24 witness: a text that closes a brace it never opened has been scored, its
\* counter having gone below zero before a later `{` brought it back to 0.
C24_Witness ==
    /\ probe.scores # <<>>
    /\ probe.text = <<"}", "{", "{", "}">>
    /\ Balance(probe.text, 1) < 0
    /\ probe.scores[1].depth = 1

\* the positions at which a word token of the text ends
TokenEnds(text) ==
    {e \in 1..Len(text) :
        text[e] \in WordChars /\ (e = Len(text) \/ text[e + 1] \notin WordChars)}

\* the word tokens with `{` or `(` as the very next character
AdjacentTokens(text) ==
    {e \in TokenEnds(text) : e < Len(text) /\ text[e + 1] \in {"{", "("}}

\* the word tokens with `{` or `(` as the next character that is not white space
FollowedTokens(text) ==
    {e \in TokenEnds(text) :
        \E j \in (e + 1)..Len(text) :
            /\ text[j] \in {"{", "("}
            /\ \A k \in (e + 1)..(j - 1) : text[k] \in SpaceChars}

IsSanitized(text) == sanitizeQuery(text) = text

\* C25 (as stated): the complexity score of a sanitized text is the number of
\* word tokens immediately followed by `{` or `(`, and a query is rejected
\* exactly when its score is greater than maxComplexity.
C25_CountsAdjacentTokens ==
    /\ (probe.scores # <<>> /\ IsSanitized(probe.text)) =>
            probe.scores[1].complexity = Cardinality(AdjacentTokens(probe.text))
    /\ probe.verdict # <<>> =>
            ((~probe.verdict[1].ok /\ probe.verdict[1].reason = "complexity") <=>
                Cardinality(AdjacentTokens(sanitizeQuery(probe.text)))
                    > probe.config[1].maxComplexity)

\* C25 (amended): the complexity score of a sanitized text is the number of word
\* tokens followed, after optional white space, by `{` or `(`; the worked example
\* scores 1; a query is rejected for complexity, with that score reported,
\* exactly when the score of its sanitized text is greater than maxComplexity.
C25_CountsFollowedTokens ==
    /\ (probe.scores # <<>> /\ IsSanitized(probe.text)) =>
            /\ probe.scores[1].complexity = Cardinality(FollowedTokens(probe.text))
            /\ probe.text = CountriesText => probe.scores[1].complexity = 1
    /\ probe.verdict # <<>> =>
            LET score == Cardinality(FollowedTokens(sanitizeQuery(probe.text)))
                rejected == /\ ~probe.verdict[1].ok
                            /\ probe.verdict[1].reason = "complexity"
            IN /\ rejected <=> score > probe.config[1].maxComplexity
               /\ rejected => /\ probe.verdict[1].score = score
                              /\ probe.verdict[1].limit = probe.config[1].maxComplexity

\* C25 witness: a sanitized text whose only token is separated from its brace by
\* a blank has been scored 1.
C25_Witness ==
    /\ probe.scores # <<>>
    /\ probe.text = <<"a", " ", "{">>
    /\ IsSanitized(probe.text)
    /\ AdjacentTokens(probe.text) = {}
    /\ probe.scores[1].complexity = 1

\* the value names of the enum type `name` as the schema defines it
EnumValueNames(schema, name) ==
    LET def == findByName(schema.__schema.types, name)
    IN IF def = <<>> \/ "enumValues" \notin DOMAIN def[1] THEN <<>>
       ELSE [i \in DOMAIN def[1].enumValues |-> def[1].enumValues[i].name]

RECURSIVE Conforms(_, _, _)
\* the parameter schema `json` is the stated mapping of the type reference `type`
Conforms(json, type, schema) ==
    IF type.kind = "NON_NULL" THEN Conforms(json, type.ofType, schema)
    ELSE IF type.kind = "LIST"
    THEN /\ json.type = "array"
         /\ Conforms(json.items, type.ofType, schema)
    ELSE IF type.kind = "SCALAR"
    THEN json.type = (IF type.name = S_Int THEN "integer"
                      ELSE IF type.name = S_Float THEN "number"
                      ELSE IF type.name = S_Boolean THEN "boolean"
                      ELSE "string")
    ELSE IF type.kind = "ENUM"
    THEN /\ json.type = "string"
         /\ "enum" \in DOMAIN json
         /\ json.enum = EnumValueNames(schema, type.name)
    ELSE json.type = "string"

\* C26: the parameter schema of every argument of every tool is the stated
\* mapping of the argument's type (String/ID to string, Int to integer, Float to
\* number, Boolean to boolean, other scalars to string, ENUM to string restricted
\* to the enum's value names, LIST to array of the mapped item type, object kinds
\* to string, looking through NON_NULL), and an argument is listed as required
\* exactly when its outermost type wrapper is NON_NULL.
C26_ParameterSchemas ==
    state.cachedSchema # <<>> =>
        \A t \in DOMAIN state.dynamicTools :
            LET tool == state.dynamicTools[t]
            IN \A j \in DOMAIN tool.resolver.args :
                LET arg == tool.resolver.args[j]
                IN /\ tool.inputSchema.properties[j].name = arg.name
                   /\ Conforms(tool.inputSchema.properties[j].schema, arg.type,
                               state.cachedSchema[1])
                   /\ arrayIncludes(tool.inputSchema.required, arg.name)
                        <=> arg.type.kind = "NON_NULL"

\* every key of the caller's argument object is an argument the field declares
ArgumentsDeclared(tool, args) ==
    \A i \in DOMAIN args : findByName(tool.resolver.args, args[i]) # <<>>

\* C27: for an exposed tool invoked with declared argument names, the
\* synthesized query has brace depth at most 2 and complexity score at most 2,
\* and exactly 2 when it has a selection set or an argument clause; with
\* maxDepth >= 2 and maxComplexity >= 2 it is never rejected for depth or
\* complexity, and with maxComplexity = 1 a synthesized query with a selection
\* set or arguments is rejected citing the complexity limit, nothing being sent.
C27_SynthesizedScores ==
    (Synthesized /\ ArgumentsDeclared(outcome.tool[1], outcome.args[1])) =>
        LET sanitized == sanitizeQuery(outcome.text)
            depth == MaxBalance(sanitized)
            complexity == Cardinality(FollowedTokens(sanitized))
            config == state.config[1]
            clauses == depth > 1 \/ outcome.args[1] # <<>>
        IN /\ depth <= 2
           /\ complexity <= 2
           /\ clauses => complexity = 2
           /\ (config.maxDepth >= 2 /\ config.maxComplexity >= 2) =>
                    outcome.reason \notin {"depth", "complexity"}
           /\ (config.maxComplexity = 1 /\ clauses) =>
                    /\ outcome.kind = "McpError"
                    /\ outcome.reason = "complexity"
                    /\ outcome.count = 2
                    /\ outcome.sent = <<>>

\* C27 witness: under maxComplexity = 1 a tool with a declared argument and a
\* selection set has been invoked with that argument, and rejected for complexity.
C27_Witness ==
    /\ Synthesized
    /\ outcome.args[1] # <<>>
    /\ ArgumentsDeclared(outcome.tool[1], outcome.args[1])
    /\ HasSelectionSet(outcome.text)
    /\ state.config[1].maxComplexity = 1
    /\ outcome.reason = "complexity"

\* client, endpoint and config are all absent or all present
SessionWhole ==
    \/ state.client = <<>> /\ state.endpoint = <<>> /\ state.config = <<>>
    \/ state.client # <<>> /\ state.endpoint # <<>> /\ state.config # <<>>

\* C28: in every reachable state client, endpoint and config are either all
\* absent or all present; a cached schema is present only when a config is
\* present, and the dynamic tool list is non-empty only when a cached schema is
\* present; so no dispatched invocation of a registered dynamic tool ends in the
\* resolver handler's "endpoint not configured" rejection.
C28_SessionWhole ==
    /\ SessionWhole
    /\ state.cachedSchema # <<>> => state.config # <<>>
    /\ state.dynamicTools # <<>> => state.cachedSchema # <<>>
    /\ (outcome.op = "call" /\ outcome.tool # <<>>) =>
            /\ outcome.reason # "not configured"
            /\ outcome.code # "InvalidRequest"
            /\ state.client # <<>>
            /\ state.config # <<>>

\* C28 witness: a registered dynamic tool has just been handed to the resolver
\* handler, with tools, schema, client, endpoint and config all present.
C28_Witness ==
    /\ outcome.op = "call"
    /\ outcome.step = "CallTool"
    /\ outcome.tool # <<>>
    /\ outcome.tool[1].name = S_query_ \o S_item
    /\ state.dynamicTools # <<>>
    /\ state.cachedSchema # <<>>
    /\ SessionWhole

\* C29: every dynamic tool in the tool list is usable with respect to the
\* disabled-resolver list: the query synthesized for an invocation of an exposed
\* tool is not rejected by the disabled-resolver check of the configuration
\* under which the tool was built.
C29_ExposedToolsUsable ==
    (Synthesized /\ arrayIncludes(state.dynamicTools, outcome.tool[1])) =>
        outcome.reason # "disabled"

\* the names of the tools that introspecting `endpoint` under `config` gives
ToolNamesAt(endpoint, config) ==
    LET schema == SchemaAt(endpoint)
    IN ExpectedNames(RootFields(schema, schema.__schema.queryType),
                     config.disabledResolvers, S_query_)
       \cup ExpectedNames(RootFields(schema, schema.__schema.mutationType),
                          config.disabledResolvers, S_mutation_)

\* C30: when configure requests overlap at their network suspension points, the
\* state is that of a single request: the cached schema and the dynamic tools
\* were obtained by introspecting the endpoint of the active config, never the
\* endpoint of the other request.
C30_SchemaOfActiveConfig ==
    state.config # <<>> =>
        /\ state.cachedSchema # <<>> =>
                state.cachedSchema[1] = SchemaAt(state.config[1].endpoint)
        /\ \A t \in DOMAIN state.dynamicTools :
                state.dynamicTools[t].name
                    \in ToolNamesAt(state.config[1].endpoint, state.config[1])

====
